---- MODULE Spec2Model ----
(***************************************************************************)
(* A model of the cubeland chunk pipeline: the chunk cache/loader          *)
(* (chunk.rs, ChunkLoader::update), the frame loop's request queue         *)
(* (main.rs), the greedy mesher (mesh.rs) and the terrain generator        *)
(* (terrain.rs).  Each part has its own specification over the shared      *)
(* variables; the variables a specification does not use stay at their     *)
(* initial values.                                                         *)
(***************************************************************************)
EXTENDS Integers, Sequences, FiniteSets, TLC

VARIABLES
    needed_chunks, \* main.rs:187, the queue of chunk keys waiting to be loaded
    inflight,   \* the keys handed to a worker whose chunk is not in the cache yet
    world_size, \* WORLD_SIZE, the static imported at chunk.rs:21, fixed at start-up
    cache,      \* ChunkLoader.cache : HashMap<(i64, i64), ~Chunk>, as a function key -> Chunk
    now,        \* the last value extra::time::precise_time_ns() returned
    last,       \* history of the last operation (what it was given, generated, touched, evicted)
    generator,  \* the TerrainGenerator (terrain.rs:49-52): its density and height fields
    terrain,    \* the Terrain grid last generated, or the one given to the mesher
    mesh,       \* the Mesh last generated
    reference   \* history: the result of one earlier generation, kept for comparison

loadervars == <<needed_chunks, inflight, world_size, cache, now>>

vars == <<needed_chunks, inflight, world_size, cache, now, last,
          generator, terrain, mesh, reference>>

(***************************************************************************)
(* Program constants and the bounds of the model.                          *)
(***************************************************************************)
\* main.rs:117, pub static CHUNK_SIZE: uint = 64
CHUNK_SIZE == 64

\* chunk.rs:24 has MAX_CHUNKS = 32; the model runs the same code with a smaller capacity.
MAX_CHUNKS == 2

\* chunk.rs:21 imports WORLD_SIZE, whose value no source file sets; the window of an
\* update is range_inclusive(-WORLD_SIZE/2, WORLD_SIZE/2) on each axis.  The model
\* runs with every value in 1..MaxWorldSize.
MaxWorldSize == 2

\* An update generates at most one chunk: the loaded flag of chunk.rs:43-55.
MAX_INFLIGHT == 1

\* The eviction pass is also run on synthetic caches of up to MAX_CHUNKS + MaxExcess
\* entries.
MaxExcess == 2

\* main.rs:116 has VISIBLE_RADIUS = 4; the model runs the same code with a smaller radius.
VISIBLE_RADIUS == 1

\* main.rs:122, static LOD_FACTOR : f32 = 150.0
LOD_FACTOR == 150

\* main.rs:288, while found_lod < 5
LOD_SEARCH_LIMIT == 5

\* Width, in bits, of the two's complement integers that stand for i64.
IntBits == 10

\* The clock is read at most up to this value by the updates of chunk.rs.
MaxTime == 3

\* The clock is read at most up to this value by the frames of main.rs.
MaxFrameTime == 5

\* The mesher is run on grids of MeshSize blocks per axis (CHUNK_SIZE in mesh.rs).
MeshSize == 3

\* The terrain generator is run on chunks of LatticeCells cells of the density
\* lattice per axis (CHUNK_SIZE / S in terrain.rs).
LatticeCells == 1

(***************************************************************************)
(* Two's complement arithmetic on IntBits bits (i64 in the source).        *)
(***************************************************************************)
RECURSIVE Pow2(_)
Pow2(n) == IF n = 0 THEN 1 ELSE 2 * Pow2(n - 1)

IntModulus == Pow2(IntBits)

ToUnsigned(x) == x % IntModulus

ToSigned(u) == IF u >= IntModulus \div 2 THEN u - IntModulus ELSE u

Wrap(v) == ToSigned(ToUnsigned(v))

RECURSIVE AndU(_, _)
AndU(a, b) ==
    IF a = 0 \/ b = 0 THEN 0
    ELSE (a % 2) * (b % 2) + 2 * AndU(a \div 2, b \div 2)

\* x & y
BitAnd(x, y) == ToSigned(AndU(ToUnsigned(x), ToUnsigned(y)))

\* !x
BitNot(x) == ToSigned((IntModulus - 1) - ToUnsigned(x))

\* (WORLD_SIZE as i64)/2
HalfWorld == world_size \div 2

(***************************************************************************)
(* terrain.rs: Block, Terrain.  A Terrain is a grid of (size + 2) blocks   *)
(* per axis, where size is the CHUNK_SIZE of the grid; the model keeps     *)
(* size in the record so that grids of several sizes can be run.           *)
(***************************************************************************)
\* terrain.rs:31-37, enum BlockType
BlockAir == 0

BlockGrass == 1

BlockStone == 2

BlockDirt == 3

BlockWater == 4

BlockTypes == {BlockAir, BlockGrass, BlockStone, BlockDirt, BlockWater}

\* terrain.rs:44-46, Block::is_opaque
IsOpaque(blocktype) == blocktype # BlockAir

\* The indices of Terrain.blocks (terrain.rs:55) on one axis, and in all three.
BlockIndices(n) == 0..(n + 1)

Grid(n) == BlockIndices(n) \X BlockIndices(n) \X BlockIndices(n)

\* The positions std::iter::range(0, CHUNK_SIZE) enumerates on the three axes.
Interior(n) == (0..(n - 1)) \X (0..(n - 1)) \X (0..(n - 1))

\* terrain.rs:176-178, Terrain::get
Get(t, p) == t.blocks[<<p[1] + 1, p[2] + 1, p[3] + 1>>]

\* A grid that was never generated (ChunkLoader holds none yet).
EmptyTerrain == [size |-> 0, blocks |-> <<>>]

\* terrain.rs:81-84, the grid gen starts from: every block is def_block.
AirTerrain(n) == [size |-> n, blocks |-> [g \in Grid(n) |-> BlockAir]]

(***************************************************************************)
(* mesh.rs: the greedy mesher.                                             *)
(***************************************************************************)
\* mesh.rs:32
NUM_FACES == 6

\* cgmath Vec3: add_v, sub_v, mul_s, mul_v, dot
AddV(a, b) == <<a[1] + b[1], a[2] + b[2], a[3] + b[3]>>

SubV(a, b) == <<a[1] - b[1], a[2] - b[2], a[3] - b[3]>>

MulS(a, s) == <<a[1] * s, a[2] * s, a[3] * s>>

MulV(a, b) == <<a[1] * b[1], a[2] * b[2], a[3] * b[3]>>

Dot(a, b) == a[1] * b[1] + a[2] * b[2] + a[3] * b[3]

\* mesh.rs:265-267
face_elements == <<0, 1, 2, 3, 2, 1>>

\* mesh.rs:269-359
faces ==
    << [index |-> 0, normal |-> <<0, 0, 1>>,
        di |-> <<0, 0, 1>>, dj |-> <<1, 0, 0>>, dk |-> <<0, 1, 0>>,
        vertices |-> << <<0, 0, 1>>, <<1, 0, 1>>, <<0, 1, 1>>, <<1, 1, 1>> >>],
       [index |-> 1, normal |-> <<0, 0, -1>>,
        di |-> <<0, 0, 1>>, dj |-> <<1, 0, 0>>, dk |-> <<0, 1, 0>>,
        vertices |-> << <<1, 0, 0>>, <<0, 0, 0>>, <<1, 1, 0>>, <<0, 1, 0>> >>],
       [index |-> 2, normal |-> <<1, 0, 0>>,
        di |-> <<1, 0, 0>>, dj |-> <<0, 1, 0>>, dk |-> <<0, 0, 1>>,
        vertices |-> << <<1, 0, 1>>, <<1, 0, 0>>, <<1, 1, 1>>, <<1, 1, 0>> >>],
       [index |-> 3, normal |-> <<-1, 0, 0>>,
        di |-> <<1, 0, 0>>, dj |-> <<0, 1, 0>>, dk |-> <<0, 0, 1>>,
        vertices |-> << <<0, 0, 0>>, <<0, 0, 1>>, <<0, 1, 0>>, <<0, 1, 1>> >>],
       [index |-> 4, normal |-> <<0, 1, 0>>,
        di |-> <<0, 1, 0>>, dj |-> <<1, 0, 0>>, dk |-> <<0, 0, 1>>,
        vertices |-> << <<0, 1, 1>>, <<1, 1, 1>>, <<0, 1, 0>>, <<1, 1, 0>> >>],
       [index |-> 5, normal |-> <<0, -1, 0>>,
        di |-> <<0, 1, 0>>, dj |-> <<1, 0, 0>>, dk |-> <<0, 0, 1>>,
        vertices |-> << <<0, 0, 0>>, <<1, 0, 0>>, <<0, 0, 1>>, <<1, 0, 1>> >>] >>

\* mesh.rs:260-262, BlockBitmap::index
BitmapIndex(n, p) == p[1] * n * n + p[2] * n + p[3]

\* mesh.rs:76-98, the bitmap of the faces to mesh in one direction
UnmeshedFaces(t, face) ==
    {BitmapIndex(t.size, p) :
        p \in {q \in Interior(t.size) :
                  /\ Get(t, q) # BlockAir
                  /\ ~IsOpaque(Get(t, AddV(q, face.normal)))}}

RECURSIVE RunLengthAnyType(_, _, _, _, _, _, _)
\* run_length without the comparison of block types
RunLengthAnyType(t, unmeshed_faces, blocktype, p, dp, len, max_len) ==
    IF len < max_len
    THEN LET q == AddV(p, dp)
         IN  IF BitmapIndex(t.size, q) \in unmeshed_faces
             THEN RunLengthAnyType(t, unmeshed_faces, blocktype, q, dp, len + 1, max_len)
             ELSE len
    ELSE len

RECURSIVE RunLengthLoop(_, _, _, _, _, _, _)
\* mesh.rs:219-232, the while loop of run_length
RunLengthLoop(t, unmeshed_faces, blocktype, p, dp, len, max_len) ==
    IF len < max_len
    THEN LET q == AddV(p, dp)
         IN  IF BitmapIndex(t.size, q) \in unmeshed_faces
             THEN IF Get(t, q) = blocktype
                  THEN RunLengthLoop(t, unmeshed_faces, blocktype, q, dp, len + 1, max_len)
                  ELSE len
             ELSE len
    ELSE len

\* mesh.rs:210-235, run_length
RunLength(t, unmeshed_faces, p, dp) ==
    RunLengthLoop(t, unmeshed_faces, Get(t, p), p, dp, 1,
                  Dot(SubV(<<t.size, t.size, t.size>>, p), dp))

MinOf(lens) == CHOOSE m \in lens : \A o \in lens : m <= o

MaxOf(lens) == CHOOSE m \in lens : \A o \in lens : m >= o

\* expand_face taking the longest run along dj instead of the shortest
ExpandFaceLongest(t, unmeshed_faces, face, p) ==
    LET len_k == RunLength(t, unmeshed_faces, p, face.dk)
        len_j == MaxOf({RunLength(t, unmeshed_faces, AddV(p, MulS(face.dk, k)), face.dj) :
                           k \in 0..(len_k - 1)})
    IN  AddV(AddV(<<1, 1, 1>>, MulS(face.dk, len_k - 1)), MulS(face.dj, len_j - 1))

\* mesh.rs:195-208, expand_face
ExpandFace(t, unmeshed_faces, face, p) ==
    LET len_k == RunLength(t, unmeshed_faces, p, face.dk)
        len_j == MinOf({RunLength(t, unmeshed_faces, AddV(p, MulS(face.dk, k)), face.dj) :
                           k \in 0..(len_k - 1)})
    IN  AddV(AddV(<<1, 1, 1>>, MulS(face.dk, len_k - 1)), MulS(face.dj, len_j - 1))

\* The quad whose elements are pushed without the vertex offset.
EmitQuadNoOffset(t, face, p, dim, acc) ==
    [unmeshed_faces |->
        acc.unmeshed_faces \
            {BitmapIndex(t.size, AddV(p, <<dx, dy, dz>>)) :
                dx \in 0..(dim[1] - 1), dy \in 0..(dim[2] - 1), dz \in 0..(dim[3] - 1)},
     vertices |->
        acc.vertices \o
            [v \in 1..4 |-> [position |-> AddV(MulV(face.vertices[v], dim), p),
                             blocktype |-> Get(t, p)]],
     elements |-> acc.elements \o [e \in 1..6 |-> face_elements[e]]]

\* mesh.rs:110-137, the quad of the face at p: the bits it clears, its vertices and
\* its elements
EmitQuad(t, face, p, dim, acc) ==
    [unmeshed_faces |->
        acc.unmeshed_faces \
            {BitmapIndex(t.size, AddV(p, <<dx, dy, dz>>)) :
                dx \in 0..(dim[1] - 1), dy \in 0..(dim[2] - 1), dz \in 0..(dim[3] - 1)},
     vertices |->
        acc.vertices \o
            [v \in 1..4 |-> [position |-> AddV(MulV(face.vertices[v], dim), p),
                             blocktype |-> Get(t, p)]],
     elements |->
        acc.elements \o [e \in 1..6 |-> Len(acc.vertices) + face_elements[e]]]

\* mesh.rs:103, the block the loops are at
ScanPosition(face, i, j, k) ==
    AddV(AddV(MulS(face.di, i), MulS(face.dj, j)), MulS(face.dk, k))

RECURSIVE MeshLoopK(_, _, _, _, _, _)
\* mesh.rs:102-138, for k in range(0, CHUNK_SIZE)
MeshLoopK(t, face, i, j, k, acc) ==
    IF k >= t.size
    THEN acc
    ELSE IF BitmapIndex(t.size, ScanPosition(face, i, j, k)) \notin acc.unmeshed_faces
         THEN MeshLoopK(t, face, i, j, k + 1, acc)
         ELSE MeshLoopK(t, face, i, j, k + 1,
                  EmitQuad(t, face, ScanPosition(face, i, j, k),
                           ExpandFace(t, acc.unmeshed_faces, face,
                                      ScanPosition(face, i, j, k)),
                           acc))

\* TLC evaluates an operator's argument when it is first used; the loops over i
\* and j use acc here, so that each iteration is evaluated before the next begins.
Evaluated(acc) == Len(acc.elements) >= 0

RECURSIVE MeshLoopJ(_, _, _, _, _)
\* mesh.rs:101, for j in range(0, CHUNK_SIZE)
MeshLoopJ(t, face, i, j, acc) ==
    IF j >= t.size
    THEN acc
    ELSE IF Evaluated(acc)
         THEN MeshLoopJ(t, face, i, j + 1, MeshLoopK(t, face, i, j, 0, acc))
         ELSE acc

RECURSIVE MeshFaceLoop(_, _, _, _)
\* mesh.rs:100-140, for i in range(0, CHUNK_SIZE)
MeshFaceLoop(t, face, i, acc) ==
    IF i >= t.size
    THEN acc
    ELSE IF Evaluated(acc)
         THEN MeshFaceLoop(t, face, i + 1, MeshLoopJ(t, face, i, 0, acc))
         ELSE acc

\* mesh.rs:142, face_ranges[face.index] = (num_elements_start, elements.len() - num_elements_start)
CloseFace(face, acc, r) ==
    [acc EXCEPT !.vertices = r.vertices,
                !.elements = r.elements,
                !.face_ranges[face.index] =
                    <<Len(acc.elements), Len(r.elements) - Len(acc.elements)>>]

RECURSIVE MeshGenLoop(_, _, _)
\* mesh.rs:71-143, for face in faces.iter()
MeshGenLoop(t, f, acc) ==
    IF f > NUM_FACES
    THEN acc
    ELSE MeshGenLoop(t, f + 1,
             CloseFace(faces[f], acc,
                 MeshFaceLoop(t, faces[f], 0,
                     [unmeshed_faces |-> UnmeshedFaces(t, faces[f]),
                      vertices |-> acc.vertices, elements |-> acc.elements])))

\* Mesh before gen has run: no vertices, no elements.
NoMesh ==
    [vertex_buffer |-> 0, element_buffer |-> 0, vertices |-> <<>>, elements |-> <<>>,
     face_ranges |-> [f \in 0..(NUM_FACES - 1) |-> <<0, 0>>]]

\* Mesh::gen appending to the buffers of the mesh generated before
MeshGenAppends(t) == MeshGenLoop(t, 1, mesh)

\* mesh.rs:58-158, Mesh::gen.  The two clock reads (lines 59, 145) only feed println.
MeshGen(t) == MeshGenLoop(t, 1, NoMesh)

(***************************************************************************)
(* terrain.rs: TerrainGenerator::gen.  The floating point values of the    *)
(* source are kept as exact integers: a height h as 2 * h, a density d as  *)
(* d itself (the fields of the model take whole values), an interpolation   *)
(* weight w as S * w, so that an interpolated density is held as           *)
(* S * S * S times its value.                                              *)
(***************************************************************************)
\* terrain.rs:86-87, static S : int = 4: the spacing of the density lattice
S == 4

\* terrain.rs:102
water_height == -12

\* terrain.rs:103
dirt_height == 4

\* terrain.rs:118, v.y > height - 2.0
grass_height == 2

\* terrain.rs:158, d < -0.2, in tenths
CarveThresholdTenths == -2

\* Rust's integer division truncates towards zero.
TruncDiv(a, b) == IF a >= 0 THEN a \div b ELSE -((-a) \div b)

\* terrain.rs:134-136, (block as f64 / S as f64).fract(), times S.  f64::fract is
\* x - x.trunc(): it keeps the sign of x.
Fract(block) == block - S * TruncDiv(block, S)

\* terrain.rs:97, self.density.get(v.x, v.y, v.z).  The noise source is a fixed
\* function of the seed and the point; the fields of the model vary along x.
DensityGet(gen, v) == gen.density[v[1]]

\* terrain.rs:110, self.height.get(x, 0.0, z) * 100.0, times 2
HeightGet(gen, x, y, z) == gen.height

\* terrain.rs:89-100, the density array, at array indices ix, iy, iz: filled for
\* density_x in range(-1, CHUNK_SIZE/S+1), 0.0 elsewhere.
DensityAt(gen, p, n, ix, iy, iz) ==
    IF /\ ix <= n \div S + 1
       /\ iy <= n \div S + 1
       /\ iz <= n \div S + 1
    THEN DensityGet(gen, AddV(p, MulS(<<ix - 1, iy - 1, iz - 1>>, S)))
    ELSE 0

\* terrain.rs:134-156, the trilinear interpolation d, times S * S * S
InterpolatedDensity(gen, p, n, b) ==
    LET fx == Fract(b[1])
        fy == Fract(b[2])
        fz == Fract(b[3])
        x == TruncDiv(b[1] + S, S)
        y == TruncDiv(b[2] + S, S)
        z == TruncDiv(b[3] + S, S)
    IN    DensityAt(gen, p, n, x, y, z) * (S - fx) * (S - fy) * (S - fz)
        + DensityAt(gen, p, n, x, y, z + 1) * (S - fx) * (S - fy) * fz
        + DensityAt(gen, p, n, x, y + 1, z) * (S - fx) * fy * (S - fz)
        + DensityAt(gen, p, n, x, y + 1, z + 1) * (S - fx) * fy * fz
        + DensityAt(gen, p, n, x + 1, y, z) * fx * (S - fy) * (S - fz)
        + DensityAt(gen, p, n, x + 1, y, z + 1) * fx * (S - fy) * fz
        + DensityAt(gen, p, n, x + 1, y + 1, z) * fx * fy * (S - fz)
        + DensityAt(gen, p, n, x + 1, y + 1, z + 1) * fx * fy * fz

\* terrain.rs:113-130, the block type by height, before the density carves it
Classify(gen, v) ==
    LET height == HeightGet(gen, v[1], 0, v[3])
    IN  IF 2 * v[2] < height
        THEN IF 2 * v[2] > height - 2 * dirt_height
             THEN IF 2 * v[2] > height - 2 * grass_height
                  THEN BlockGrass
                  ELSE BlockDirt
             ELSE BlockStone
        ELSE IF v[2] < water_height THEN BlockWater ELSE BlockAir

\* The carving applied to every block that is not air, water included.
CarveAnything(gen, p, n, b, blocktype) ==
    IF /\ blocktype # BlockAir
       /\ 10 * InterpolatedDensity(gen, p, n, b) < CarveThresholdTenths * S * S * S
    THEN BlockAir
    ELSE blocktype

\* terrain.rs:132-161
Carve(gen, p, n, b, blocktype) ==
    IF /\ blocktype # BlockAir
       /\ blocktype # BlockWater
       /\ 10 * InterpolatedDensity(gen, p, n, b) < CarveThresholdTenths * S * S * S
    THEN BlockAir
    ELSE blocktype

\* terrain.rs:112-166, the block type computed for block (block_x, block_y, block_z)
BlockAt(gen, p, n, b) == Carve(gen, p, n, b, Classify(gen, AddV(p, b)))

\* terrain.rs:81-84, the block a slot of the new grid holds: def_block
InitialBlock(g) == BlockAir

\* terrain.rs:163-166, only a block that is not air is written
WriteBlock(old, blocktype) == IF blocktype # BlockAir THEN blocktype ELSE old

\* terrain.rs:80-172, TerrainGenerator::gen
TerrainGen(gen, p, n) ==
    [size |-> n,
     blocks |-> [g \in Grid(n) |->
                    WriteBlock(InitialBlock(g),
                               BlockAt(gen, p, n, <<g[1] - 1, g[2] - 1, g[3] - 1>>))]]

\* No TerrainGenerator, and no reference kept.
NoGenerator == [density |-> <<>>, height |-> 0]

NoReference == [set |-> FALSE]

\* The state of the generator side while the loader runs on its own.
GeneratorIdle ==
    /\ generator = NoGenerator
    /\ terrain = EmptyTerrain
    /\ mesh = NoMesh
    /\ reference = NoReference

\* The state of the loader side while the generator runs on its own.
LoaderIdle ==
    /\ world_size = 1
    /\ needed_chunks = <<>>
    /\ inflight = {}
    /\ cache = <<>>
    /\ now = 0

(***************************************************************************)
(* chunk.rs: Chunk, chunk_gen and ChunkLoader::update.                     *)
(***************************************************************************)
\* The mask without the !: the low bits instead of the high ones
ChunkMaskLowBits == CHUNK_SIZE - 1

\* let mask : i64 = !(CHUNK_SIZE as i64 - 1)
ChunkMask == BitNot(CHUNK_SIZE - 1)

\* The (ix, iz) pairs of the two nested range_inclusive loops, in loop order.
WindowWidth == 2 * HalfWorld + 1

WindowSeq ==
    LET h == HalfWorld
        w == WindowWidth
    IN  [i \in 1..(w * w) |-> <<((i - 1) \div w) - h, ((i - 1) % w) - h>>]

\* cx = (x & mask) + ix*CHUNK_SIZE, cz = (z & mask) + iz*CHUNK_SIZE
ChunkKey(x, z, off) ==
    <<Wrap(BitAnd(x, ChunkMask) + off[1] * CHUNK_SIZE),
      Wrap(BitAnd(z, ChunkMask) + off[2] * CHUNK_SIZE)>>

\* The keys an update at eye position (x, z) looks at.
Window(x, z) == {ChunkKey(x, z, WindowSeq[i]) : i \in DOMAIN WindowSeq}

\* extra::time::precise_time_ns(): the n-th read (from 0) of an operation.  The
\* clock never runs backwards; it advances by tick before the operation's first
\* read and by step between two reads.
PreciseTimeNs(tick, step, n) == now + tick + n * step

\* chunk_gen that leaves used_time at zero instead of reading the clock
ChunkGenZeroTime(cx, cz, t) == [x |-> cx, z |-> cz, used_time |-> 0]

\* chunk_gen returns a Chunk whose used_time is the clock at the end of generation.
ChunkGen(cx, cz, t) == [x |-> cx, z |-> cz, used_time |-> t]

\* Chunk::touch that forgets to store the time.
TouchKeepsOldTime(chunk, t) == chunk

\* Chunk::touch
Touch(chunk, t) == [chunk EXCEPT !.used_time = t]

Insert(c, k, chunk) == [j \in DOMAIN c \cup {k} |-> IF j = k THEN chunk ELSE c[j]]

Remove(c, k) == [j \in DOMAIN c \ {k} |-> c[j]]

\* The loops without the loaded flag: every missing chunk of the window is generated.
RECURSIVE UpdateLoopLoadsAll(_, _, _, _, _, _, _)
UpdateLoopLoadsAll(i, win, x, z, tick, step, acc) ==
    IF i > Len(win) THEN acc
    ELSE LET k == ChunkKey(x, z, win[i])
             t == PreciseTimeNs(tick, step, acc.reads)
         IN  IF k \notin DOMAIN acc.cache
             THEN UpdateLoopLoadsAll(i + 1, win, x, z, tick, step,
                      [cache |-> [j \in DOMAIN acc.cache \cup {k} |->
                                     IF j = k THEN [x |-> k[1], z |-> k[2], used_time |-> t]
                                     ELSE acc.cache[j]],
                       loaded |-> TRUE,
                       reads |-> acc.reads + 1,
                       last_read |-> t,
                       generated |-> acc.generated \cup {k},
                       inserted |-> acc.inserted \cup {k},
                       touched |-> acc.touched])
             ELSE UpdateLoopLoadsAll(i + 1, win, x, z, tick, step,
                      [acc EXCEPT !.cache = [acc.cache EXCEPT ![k].used_time = t],
                                  !.reads = acc.reads + 1,
                                  !.last_read = t,
                                  !.touched = acc.touched \cup {k}])

\* chunk.rs:49-59, the body of the two nested loops for the key k, with t the clock
\* at that point.  acc carries the cache, the loaded flag, the number of clock reads
\* so far, and what was generated and touched.
UpdateCell(acc, k, t) ==
    IF k \notin DOMAIN acc.cache
    THEN IF ~acc.loaded
         THEN [cache |-> Insert(acc.cache, k, ChunkGen(k[1], k[2], t)),
               loaded |-> TRUE,
               reads |-> acc.reads + 1,
               last_read |-> t,
               generated |-> acc.generated \cup {k},
               inserted |-> acc.inserted \cup {k},
               touched |-> acc.touched]
         ELSE acc
    ELSE [acc EXCEPT !.cache = [acc.cache EXCEPT ![k] = Touch(acc.cache[k], t)],
                     !.reads = acc.reads + 1,
                     !.last_read = t,
                     !.touched = acc.touched \cup {k}]

\* chunk.rs:45-61, the two nested loops from the i-th window cell on.  The state
\* after one cell is bound as a value (the one element of a set) before the next.
RECURSIVE UpdateLoop(_, _, _, _, _, _, _)
UpdateLoop(i, win, x, z, tick, step, acc) ==
    IF i > Len(win) THEN acc
    ELSE CHOOSE r \in
             {UpdateLoop(i + 1, win, x, z, tick, step, a) :
                 a \in {UpdateCell(acc, ChunkKey(x, z, win[i]),
                                   PreciseTimeNs(tick, step, acc.reads))}} : TRUE

\* min_by mistaken for max_by: the most recently used entry.
MaxByUsedTime(c) ==
    {k \in DOMAIN c : \A j \in DOMAIN c : c[k].used_time >= c[j].used_time}

\* The keys min_by(|chunk| chunk.used_time) can return: the HashMap's iteration
\* order is arbitrary, so any entry with the minimal used_time.
MinByUsedTime(c) ==
    {k \in DOMAIN c : \A j \in DOMAIN c : c[k].used_time <= c[j].used_time}

\* The eviction loop with its test off by one: while self.cache.len() > MAX_CHUNKS + 1.
RECURSIVE EvictOffByOne(_)
EvictOffByOne(c) ==
    IF Cardinality(DOMAIN c) > MAX_CHUNKS + 1
    THEN UNION {EvictOffByOne([j \in DOMAIN c \ {k} |-> c[j]]) :
                    k \in {m \in DOMAIN c : \A j \in DOMAIN c : c[m].used_time <= c[j].used_time}}
    ELSE {c}

\* while self.cache.len() > MAX_CHUNKS { remove the min_by entry }: the caches the
\* loop can end with.
RECURSIVE Evict(_)
Evict(c) ==
    IF Cardinality(DOMAIN c) > MAX_CHUNKS
    THEN UNION {Evict(Remove(c, k)) : k \in MinByUsedTime(c)}
    ELSE {c}

\* The eye positions an update is given: in the chunk left of the origin, at the
\* origin, and in the chunk right of it.
EyeXs == {-1, 0, CHUNK_SIZE}

EyeZs == {CHUNK_SIZE - 1}

NoLast == [op |-> "new", x |-> 0, z |-> 0,
           generated |-> {}, inserted |-> {}, touched |-> {}, evicted |-> {}]

\* ChunkLoader::new
Init ==
    /\ GeneratorIdle
    /\ world_size \in 1..MaxWorldSize
    /\ needed_chunks = <<>>
    /\ inflight = {}
    /\ cache = <<>>
    /\ now = 0
    /\ last = NoLast

\* ChunkLoader::update(x, z)
Update(x, z, tick, step) ==
    \E r \in {UpdateLoop(1, WindowSeq, x, z, tick, step,
                 [cache |-> cache, loaded |-> FALSE, reads |-> 0, last_read |-> now,
                  generated |-> {}, inserted |-> {}, touched |-> {}])} :
        /\ r.last_read <= MaxTime
        /\ \E c2 \in Evict(r.cache) :
              /\ cache' = c2
              /\ last' = [op |-> "update", x |-> x, z |-> z,
                          generated |-> r.generated, inserted |-> r.inserted,
                          touched |-> r.touched,
                          evicted |-> DOMAIN r.cache \ DOMAIN c2]
        /\ now' = r.last_read
        /\ UNCHANGED <<world_size, needed_chunks, inflight>>
        /\ UNCHANGED <<generator, terrain, mesh, reference>>

Next ==
    \E x \in EyeXs, z \in EyeZs, tick \in 0..1, step \in 0..1 : Update(x, z, tick, step)

Spec == Init /\ [][Next]_vars

(***************************************************************************)
(* The eviction loop of ChunkLoader::update (chunk.rs:63-66) on its own,   *)
(* started from every synthetic cache of MAX_CHUNKS .. MAX_CHUNKS +        *)
(* MaxExcess entries.                                                      *)
(***************************************************************************)
SynthKeys == {<<i * CHUNK_SIZE, 0>> : i \in 1..(MAX_CHUNKS + MaxExcess)}

SynthTimes == 1..(MAX_CHUNKS + MaxExcess)

InitEvict ==
    /\ GeneratorIdle
    /\ world_size = 1
    /\ needed_chunks = <<>>
    /\ inflight = {}
    /\ now = MAX_CHUNKS + MaxExcess
    /\ last = NoLast
    /\ \E K \in SUBSET SynthKeys :
          /\ Cardinality(K) >= MAX_CHUNKS
          /\ \E f \in [K -> SynthTimes] :
                cache = [k \in K |-> ChunkGen(k[1], k[2], f[k])]

\* One run of the while loop at chunk.rs:63-66.
EvictPass ==
    /\ \E c2 \in Evict(cache) :
          /\ cache' = c2
          /\ last' = [op |-> "evict", x |-> 0, z |-> 0, before |-> cache,
                      generated |-> {}, inserted |-> {}, touched |-> {},
                      evicted |-> DOMAIN cache \ DOMAIN c2]
    /\ UNCHANGED <<world_size, now, needed_chunks, inflight>>
    /\ UNCHANGED <<generator, terrain, mesh, reference>>

NextEvict == EvictPass

SpecEvict == InitEvict /\ [][NextEvict]_vars

DistinctUsedTimes(c) ==
    \A j, k \in DOMAIN c : j # k => c[j].used_time # c[k].used_time

\* The n entries of c with the smallest used_time.
Oldest(c, n) ==
    {k \in DOMAIN c :
        Cardinality({j \in DOMAIN c : c[j].used_time < c[k].used_time}) < n}

\* C3: on a cache of MAX_CHUNKS + k entries with pairwise distinct used_time values,
\* one eviction pass removes exactly the k entries with the smallest used_time and
\* leaves every other entry in the cache, unchanged.
C3_EvictsOldest ==
    (last.op = "evict" /\ DistinctUsedTimes(last.before)) =>
        LET k == Cardinality(DOMAIN last.before) - MAX_CHUNKS
        IN  /\ last.evicted = Oldest(last.before, k)
            /\ DOMAIN cache = DOMAIN last.before \ Oldest(last.before, k)
            /\ \A j \in DOMAIN cache : cache[j] = last.before[j]

\* A pass over a cache with distinct times that was MaxExcess entries over capacity.
C3_Witness ==
    /\ last.op = "evict"
    /\ DistinctUsedTimes(last.before)
    /\ Cardinality(DOMAIN last.before) = MAX_CHUNKS + MaxExcess
    /\ Cardinality(last.evicted) = MaxExcess

(***************************************************************************)
(* main.rs: one iteration of the frame loop (lines 192-353): the view      *)
(* query, the request loop over the wanted chunks, and the load of one     *)
(* queued chunk.  The cache is keyed by (cx, cz, lod) here.                *)
(***************************************************************************)
SpiralPoints ==
    {<<vx, vy>> : vx \in (-VISIBLE_RADIUS)..VISIBLE_RADIUS,
                  vy \in (-VISIBLE_RADIUS)..VISIBLE_RADIUS}

SpiralBefore(p, q) ==
    LET dp == p[1] * p[1] + p[2] * p[2]
        dq == q[1] * q[1] + q[2] * q[2]
    IN  \/ dp < dq
        \/ dp = dq /\ p[1] < q[1]
        \/ dp = dq /\ p[1] = q[1] /\ p[2] < q[2]

\* Spiral::<i64>::new(num_chunks): the (2*VISIBLE_RADIUS+1)^2 offsets around the
\* centre, nearest first.
Spiral ==
    [i \in 1..Cardinality(SpiralPoints) |->
        CHOOSE p \in SpiralPoints :
            Cardinality({q \in SpiralPoints : SpiralBefore(q, p)}) = i - 1]

\* (dist / LOD_FACTOR) as uint with dist = sqrt(dx^2 + dz^2): the largest n with
\* (n * LOD_FACTOR)^2 <= dx^2 + dz^2.
RECURSIVE LodFrom(_, _)
LodFrom(n, d2) ==
    IF (n + 1) * LOD_FACTOR * (n + 1) * LOD_FACTOR <= d2 THEN LodFrom(n + 1, d2) ELSE n

Lod(cx, cz, x, z) == LodFrom(0, (cx - x) * (cx - x) + (cz - z) * (cz - z))

\* visible_chunks with the offsets added to the eye position itself instead of to
\* the origin of its chunk.
VisibleChunksUnmasked(x, z) ==
    [i \in DOMAIN Spiral |->
        LET cx == Wrap(x + Spiral[i][1] * CHUNK_SIZE)
            cz == Wrap(z + Spiral[i][2] * CHUNK_SIZE)
        IN  <<cx, cz, Lod(cx, cz, x, z)>>]

\* visible_chunks(x, z)
VisibleChunks(x, z) ==
    [i \in DOMAIN Spiral |->
        LET cx == Wrap(BitAnd(x, ChunkMask) + Spiral[i][1] * CHUNK_SIZE)
            cz == Wrap(BitAnd(z, ChunkMask) + Spiral[i][2] * CHUNK_SIZE)
        IN  <<cx, cz, Lod(cx, cz, x, z)>>]

Range(q) == {q[i] : i \in DOMAIN q}

\* The search that starts above the lod it is given: lod 0 is never tested.
RECURSIVE FoundLodCoarserOnly(_, _, _, _)
FoundLodCoarserOnly(c, cx, cz, found_lod) ==
    IF found_lod + 1 < LOD_SEARCH_LIMIT /\ <<cx, cz, found_lod + 1>> \notin DOMAIN c
    THEN FoundLodCoarserOnly(c, cx, cz, found_lod + 1)
    ELSE found_lod + 1

\* main.rs:288-293: the first lod from 0 up whose chunk is cached, or 5
RECURSIVE FoundLod(_, _, _, _)
FoundLod(c, cx, cz, found_lod) ==
    IF found_lod < LOD_SEARCH_LIMIT /\ <<cx, cz, found_lod>> \notin DOMAIN c
    THEN FoundLod(c, cx, cz, found_lod + 1)
    ELSE found_lod

\* main.rs:298-326: touch the chunk found for this coordinate, if any
TouchFound(acc, k, t) ==
    IF k \in DOMAIN acc.cache
    THEN [acc EXCEPT !.cache = [acc.cache EXCEPT ![k] = Touch(acc.cache[k], t)],
                     !.reads = acc.reads + 1,
                     !.last_read = t,
                     !.touched = acc.touched \cup {k}]
    ELSE acc

\* The request without the needed_chunks.contains test.
RequestCoordNoContains(acc, k, t) ==
    IF k \notin DOMAIN acc.cache
    THEN TouchFound([acc EXCEPT !.needed = Append(acc.needed, k)],
                    <<k[1], k[2], FoundLod(acc.cache, k[1], k[2], 0)>>, t)
    ELSE TouchFound(acc, k, t)

\* The request that queues a coordinate whether or not it is cached.
RequestCoordQueuesCached(acc, k, t) ==
    LET a == IF k \notin Range(acc.needed)
             THEN [acc EXCEPT !.needed = Append(acc.needed, k)]
             ELSE acc
    IN  IF k \notin DOMAIN acc.cache
        THEN TouchFound(a, <<k[1], k[2], FoundLod(acc.cache, k[1], k[2], 0)>>, t)
        ELSE TouchFound(a, k, t)

\* main.rs:281-326: the body of the loop over coords, for the wanted key k
RequestCoord(acc, k, t) ==
    IF k \notin DOMAIN acc.cache
    THEN LET a == IF k \notin Range(acc.needed)
                  THEN [acc EXCEPT !.needed = Append(acc.needed, k)]
                  ELSE acc
         IN  TouchFound(a, <<k[1], k[2], FoundLod(acc.cache, k[1], k[2], 0)>>, t)
    ELSE TouchFound(acc, k, t)

\* The request loop that first drops from needed_chunks the keys this frame does
\* not want.
RECURSIVE RequestLoopClearsStale(_, _, _, _, _)
RequestLoopClearsStale(i, coords, tick, step, acc) ==
    IF i > Len(coords) THEN acc
    ELSE CHOOSE r \in
             {RequestLoopClearsStale(i + 1, coords, tick, step, b) :
                 b \in {RequestCoord(a, coords[i], PreciseTimeNs(tick, step, a.reads)) :
                           a \in {IF i = 1
                                  THEN [acc EXCEPT !.needed =
                                           SelectSeq(acc.needed,
                                                     LAMBDA k : k \in Range(coords))]
                                  ELSE acc}}} : TRUE

\* main.rs:280-327: for &(cx, cz, lod) in coords.iter().  The state after one
\* iteration is bound as a value (the one element of a set) before the next.
RECURSIVE RequestLoop(_, _, _, _, _)
RequestLoop(i, coords, tick, step, acc) ==
    IF i > Len(coords) THEN acc
    ELSE CHOOSE r \in
             {RequestLoop(i + 1, coords, tick, step, a) :
                 a \in {RequestCoord(acc, coords[i],
                                     PreciseTimeNs(tick, step, acc.reads))}} : TRUE

\* chunk_loader.load(cx, cz, lod): the key is handed to a worker, the worker
\* generates the chunk, the chunk is stamped and inserted, the key leaves the
\* in-flight set, and the cache is evicted down to MAX_CHUNKS.  The caches and
\* in-flight sets it can end with.
Load(c, fl, k, t) ==
    LET dispatched == fl \cup {k}
        chunk == [x |-> k[1], z |-> k[2], lod |-> k[3], used_time |-> t]
        harvested == Insert(c, k, chunk)
    IN  {[cache |-> c2, inflight |-> dispatched \ {k}] : c2 \in Evict(harvested)}

\* The positions camera_position takes: two in the chunk at the origin, which give
\* the chunk at (-64, -64) two different lods, and one in the next chunk.
EyePositions == {<<0, 0>>, <<CHUNK_SIZE - 1, CHUNK_SIZE - 1>>, <<CHUNK_SIZE, 0>>}

InitFrame ==
    /\ GeneratorIdle
    /\ world_size = 1
    /\ needed_chunks = <<>>
    /\ inflight = {}
    /\ cache = <<>>
    /\ now = 0
    /\ last = NoLast

\* One iteration of the frame loop with the camera at (x, z); limit is what
\* load_limiter.limit() answers.  A frame ends with swap_buffers, so the clock has
\* advanced (tick = 1) when the next frame reads it.
Frame(x, z, limit, tick, step) ==
    /\ UNCHANGED <<generator, terrain, mesh, reference>>
    /\ \E r \in {RequestLoop(1, VisibleChunks(x, z), tick, step,
                   [cache |-> cache, needed |-> needed_chunks, reads |-> 0,
                    last_read |-> now, touched |-> {}])} :
        IF r.needed # <<>> /\ limit
        THEN LET k == Head(r.needed)
                 t == PreciseTimeNs(tick, step, r.reads)
             IN  /\ t <= MaxFrameTime
                 /\ \E l \in Load(r.cache, inflight, k, t) :
                       /\ cache' = l.cache
                       /\ inflight' = l.inflight
                       /\ last' = [op |-> "frame", x |-> x, z |-> z,
                                   wanted |-> Range(VisibleChunks(x, z)),
                                   requested |-> DOMAIN r.cache,
                                   generated |-> {k}, inserted |-> {k},
                                   touched |-> r.touched,
                                   evicted |-> (DOMAIN r.cache \cup {k}) \ DOMAIN l.cache]
                 /\ needed_chunks' = Tail(r.needed)
                 /\ now' = t
                 /\ UNCHANGED world_size
        ELSE /\ r.last_read <= MaxFrameTime
             /\ cache' = r.cache
             /\ needed_chunks' = r.needed
             /\ now' = r.last_read
             /\ last' = [op |-> "frame", x |-> x, z |-> z,
                         wanted |-> Range(VisibleChunks(x, z)),
                         requested |-> DOMAIN r.cache,
                         generated |-> {}, inserted |-> {},
                         touched |-> r.touched, evicted |-> {}]
             /\ UNCHANGED <<world_size, inflight>>

NextFrame ==
    \E e \in EyePositions, limit \in BOOLEAN, step \in 0..1 :
        Frame(e[1], e[2], limit, 1, step)

SpecFrame == InitFrame /\ [][NextFrame]_vars

C5_CachedRequestOnlyTouches ==
    [][/\ last'.requested = DOMAIN cache
       /\ \A k \in last'.wanted \cap DOMAIN cache :
              /\ k \notin Range(needed_chunks')
              /\ k \notin last'.generated
              /\ k \in last'.touched
              /\ k \in DOMAIN cache' =>
                    /\ cache'[k] = [cache[k] EXCEPT !.used_time = cache'[k].used_time]
                    /\ now <= cache'[k].used_time
                    /\ cache'[k].used_time <= now'
       /\ \A j \in (DOMAIN cache \cap DOMAIN cache') \ last'.touched :
              cache'[j] = cache[j]]_vars

\* A frame that wanted a chunk generated in an earlier frame, and touched it.
C5_Witness ==
    /\ last.op = "frame"
    /\ \E k \in last.wanted \cap last.touched \cap DOMAIN cache :
          /\ k \notin last.generated
          /\ cache[k].used_time >= 2

(***************************************************************************)
(* Claims about ChunkLoader::update, checked under Spec.                   *)
(***************************************************************************)
\* C1: after every update, from an empty cache and for any sequence of eye
\* positions, the cache holds at most MAX_CHUNKS chunks.
C1_CacheWithinCapacity == Cardinality(DOMAIN cache) <= MAX_CHUNKS

\* An update that had to evict, and left the cache full.
C1_Witness ==
    /\ last.op = "update"
    /\ last.evicted # {}
    /\ Cardinality(DOMAIN cache) = MAX_CHUNKS

\* C2: between updates no generation is pending (every chunk whose generation was
\* started has been inserted), and one update starts at most MAX_INFLIGHT
\* generations however many chunks of its window are missing.
C2_InFlightBounded ==
    /\ Cardinality(last.generated) <= MAX_INFLIGHT
    /\ last.generated \ last.inserted = {}

\* An update that generated one chunk and left another chunk of its window missing.
C2_Witness ==
    /\ last.op = "update"
    /\ Cardinality(last.generated) = MAX_INFLIGHT
    /\ Window(last.x, last.z) \ (DOMAIN cache \cup last.evicted) # {}

\* C6: while a chunk stays in the cache its used_time never decreases, and a chunk
\* that an operation generates or touches has its used_time set to a clock value read
\* during that operation.
C6_UsedTimeMonotone ==
    [][/\ \A k \in DOMAIN cache \cap DOMAIN cache' :
              cache'[k].used_time >= cache[k].used_time
       /\ \A k \in (last'.generated \cup last'.touched) \cap DOMAIN cache' :
              /\ now <= cache'[k].used_time
              /\ cache'[k].used_time <= now']_vars

\* A chunk that was generated earlier, and was touched by a later update after the
\* clock had advanced.
C6_Witness ==
    /\ last.op = "update"
    /\ last.generated # {}
    /\ \E k \in last.touched \cap DOMAIN cache :
          cache[k].used_time = now /\ now >= 2

(***************************************************************************)
(* mesh.rs: Mesh::gen run on synthetic terrain grids of MeshSize blocks per *)
(* axis.  Six blocks of the far corner cube of side 2 (a full 2 x 2 layer   *)
(* and a row of the layer before it) take every combination of            *)
(* SynthTypes, the other interior blocks are air, and the halo is all air  *)
(* or all stone.                                                           *)
(***************************************************************************)
SynthTypes == {BlockAir, BlockGrass, BlockStone}

HaloTypes == {BlockAir, BlockStone}

FreeCells(n) ==
    {p \in Interior(n) :
        /\ p[1] >= n - 2
        /\ p[2] >= n - 2
        /\ p[3] >= n - 2
        /\ p[1] + p[2] > 2 * (n - 2)}

SyntheticTerrain(n, f, halo) ==
    [size |-> n,
     blocks |-> [g \in Grid(n) |->
                    IF <<g[1] - 1, g[2] - 1, g[3] - 1>> \in FreeCells(n)
                    THEN f[<<g[1] - 1, g[2] - 1, g[3] - 1>>]
                    ELSE IF <<g[1] - 1, g[2] - 1, g[3] - 1>> \in Interior(n)
                         THEN BlockAir
                         ELSE halo]]

InitMesh ==
    /\ LoaderIdle
    /\ generator = NoGenerator
    /\ reference = NoReference
    /\ mesh = NoMesh
    /\ last = NoLast
    /\ \E f \in [FreeCells(MeshSize) -> SynthTypes], halo \in HaloTypes :
          terrain = SyntheticTerrain(MeshSize, f, halo)

\* Mesh::gen(&terrain)
MeshStep ==
    /\ mesh' = MeshGen(terrain)
    /\ last' = [op |-> "mesh"]
    /\ UNCHANGED <<generator, terrain, reference>>
    /\ UNCHANGED loadervars

NextMesh == MeshStep

SpecMesh == InitMesh /\ [][NextMesh]_vars

(***************************************************************************)
(* The quads of a mesh, read back from its buffers: the quads of a face    *)
(* direction are the groups of 6 elements of its face range, and the cells *)
(* a quad covers are those under the bounding box of its vertices.         *)
(***************************************************************************)
QuadCount(m, face) == m.face_ranges[face.index][2] \div 6

QuadElements(m, face, q) ==
    [e \in 1..6 |-> m.elements[m.face_ranges[face.index][1] + 6 * q + e]]

QuadVertices(m, face, q) == {m.vertices[QuadElements(m, face, q)[e] + 1] : e \in 1..6}

Lo(m, face, q, a) == MinOf({v.position[a] : v \in QuadVertices(m, face, q)})

Hi(m, face, q, a) == MaxOf({v.position[a] : v \in QuadVertices(m, face, q)})

\* The cells on axis a under the quad: its extent in the plane of the face, and
\* the one layer behind the face along the normal.
CellRange(m, face, q, a) ==
    IF face.normal[a] = 0
    THEN Lo(m, face, q, a)..(Hi(m, face, q, a) - 1)
    ELSE IF face.normal[a] > 0
         THEN {Lo(m, face, q, a) - 1}
         ELSE {Lo(m, face, q, a)}

QuadCells(m, face, q) ==
    CellRange(m, face, q, 1) \X CellRange(m, face, q, 2) \X CellRange(m, face, q, 3)

QuadOrigin(m, face, q) ==
    <<MinOf(CellRange(m, face, q, 1)), MinOf(CellRange(m, face, q, 2)),
      MinOf(CellRange(m, face, q, 3))>>

QuadDim(m, face, q) ==
    <<Cardinality(CellRange(m, face, q, 1)), Cardinality(CellRange(m, face, q, 2)),
      Cardinality(CellRange(m, face, q, 3))>>

\* The exposed mask of a direction: the interior blocks that are opaque and whose
\* neighbour in that direction is not.
ExposedCells(t, face) ==
    {p \in Interior(t.size) :
        IsOpaque(Get(t, p)) /\ ~IsOpaque(Get(t, AddV(p, face.normal)))}

\* C7: for each of the 6 face directions, the cells covered by the quads Mesh::gen
\* emits for that direction are exactly the cells of the exposed mask of that
\* direction, and no cell is covered by two quads.
C7_MeshPartition ==
    last.op = "mesh" =>
        \A f \in 1..NUM_FACES :
            /\ mesh.face_ranges[faces[f].index][2] % 6 = 0
            /\ UNION {QuadCells(mesh, faces[f], q) :
                         q \in 0..(QuadCount(mesh, faces[f]) - 1)}
                   = ExposedCells(terrain, faces[f])
            /\ \A q1, q2 \in 0..(QuadCount(mesh, faces[f]) - 1) :
                  q1 # q2 =>
                      QuadCells(mesh, faces[f], q1) \cap QuadCells(mesh, faces[f], q2) = {}

\* A mesh where one direction has a merged quad of several cells next to another quad.
C7_Witness ==
    /\ last.op = "mesh"
    /\ \E f \in 1..NUM_FACES :
          \E q1, q2 \in 0..(QuadCount(mesh, faces[f]) - 1) :
              /\ q1 # q2
              /\ Cardinality(QuadCells(mesh, faces[f], q1)) >= 2
              /\ Cardinality(ExposedCells(terrain, faces[f])) >= 3

\* C8: every cell covered by an emitted quad has the block type of the quad's origin
\* voxel, and the four vertices of the quad are tagged with that block type and are
\* the four corners of one face direction, scaled to the quad.
C8_UniformQuads ==
    last.op = "mesh" =>
        \A f \in 1..NUM_FACES :
            \A q \in 0..(QuadCount(mesh, faces[f]) - 1) :
                /\ \A c \in QuadCells(mesh, faces[f], q) :
                      Get(terrain, c) = Get(terrain, QuadOrigin(mesh, faces[f], q))
                /\ \A v \in QuadVertices(mesh, faces[f], q) :
                      v.blocktype = Get(terrain, QuadOrigin(mesh, faces[f], q))
                /\ {v.position : v \in QuadVertices(mesh, faces[f], q)}
                     = {AddV(MulV(faces[f].vertices[i], QuadDim(mesh, faces[f], q)),
                             QuadOrigin(mesh, faces[f], q)) : i \in 1..4}

\* A mesh with a merged quad that stops where the block type changes.
C8_Witness ==
    /\ last.op = "mesh"
    /\ \E f \in 1..NUM_FACES :
          \E q \in 0..(QuadCount(mesh, faces[f]) - 1) :
              /\ Cardinality(QuadCells(mesh, faces[f], q)) >= 2
              /\ \E c \in QuadCells(mesh, faces[f], q) :
                    \E d \in {faces[f].dj, faces[f].dk} :
                        /\ AddV(c, d) \in ExposedCells(terrain, faces[f])
                        /\ Get(terrain, AddV(c, d)) # Get(terrain, c)

(***************************************************************************)
(* terrain.rs and mesh.rs: the generation of chunks, one after another,    *)
(* by one TerrainGenerator.  reference keeps the result of one generation  *)
(* (any one) to compare later generations with.                            *)
(***************************************************************************)
TerrainSize == S * LatticeCells

\* The chunk origins p: a chunk, its two neighbours along x, and a chunk below the
\* water height.
Origins == {<<-TerrainSize, 0, 0>>, <<0, 0, 0>>, <<TerrainSize, 0, 0>>, <<0, -4 * S, 0>>}

\* The x of the lattice points the density is read at
LatticeXs == {o[1] + k * S : o \in Origins, k \in (-1)..(TerrainSize \div S)}

FreeLatticeXs == {-S, 0, S}

DensityValues == {-1, 0}

\* 2 * height: -14.5, 3.5
Heights == {-29, 7}

\* TerrainGenerator::new(seed): the two noise sources, as the fields they compute
Generators ==
    {[density |-> [wx \in LatticeXs |-> IF wx \in FreeLatticeXs THEN f[wx] ELSE 0],
      height |-> h] : f \in [FreeLatticeXs -> DensityValues], h \in Heights}

InitTerrain ==
    /\ LoaderIdle
    /\ generator \in Generators
    /\ terrain = AirTerrain(TerrainSize)
    /\ mesh = NoMesh
    /\ reference = NoReference
    /\ last = NoLast

\* The generation of the chunk at origin p: TerrainGenerator::gen(p), then
\* Mesh::gen(terrain).  mark says whether this result becomes the reference.
Generate(p) ==
    \E gen \in {generator} : \E t \in {TerrainGen(gen, p, TerrainSize)} :
        /\ t.blocks \in [Grid(TerrainSize) -> BlockTypes]
        /\ \E m \in {MeshGen(t)} : \E mark \in BOOLEAN :
            /\ terrain' = t
            /\ mesh' = m
            /\ reference' =
                  IF mark
                  THEN [set |-> TRUE, p |-> p, terrain |-> t, mesh |-> m, others |-> FALSE]
                  ELSE IF reference.set /\ reference.p # p
                       THEN [reference EXCEPT !.others = TRUE]
                       ELSE reference
            /\ last' = [op |-> "gen", p |-> p]
            /\ UNCHANGED generator
            /\ UNCHANGED loadervars

NextTerrain == \E p \in Origins : Generate(p)

SpecTerrain == InitTerrain /\ [][NextTerrain]_vars

C10_HaloMatchesNeighbour ==
    (/\ last.op = "gen"
     /\ reference.set
     /\ last.p = AddV(reference.p, <<TerrainSize, 0, 0>>)) =>
        \A y, z \in 0..(TerrainSize - 1) :
            /\ Get(terrain, <<-1, y, z>>) = Get(reference.terrain, <<TerrainSize - 1, y, z>>)
            /\ Get(reference.terrain, <<TerrainSize, y, z>>) = Get(terrain, <<0, y, z>>)

(***************************************************************************)
(* main.rs, terrain.rs and mesh.rs together: the frame loop in which the   *)
(* load of a chunk generates its terrain and its mesh and finishes the     *)
(* mesh before the chunk enters the cache.                                 *)
(***************************************************************************)
\* Mesh::finish with the upload done whether or not there is anything to upload:
\* &self.vertices[0] fails on an empty array.
FinishUnguarded(m) ==
    [ok |-> m.vertices # <<>> /\ m.elements # <<>>,
     mesh |-> [m EXCEPT !.vertex_buffer = 1, !.element_buffer = 2,
                        !.vertices = <<>>, !.elements = <<>>]]

\* Mesh::finish: the arrays are handed to two new buffers when there are elements,
\* and cleared.  ok tells whether the call returned; &self.vertices[0] fails on an
\* empty array.
Finish(m) ==
    IF m.elements # <<>>
    THEN [ok |-> m.vertices # <<>>,
          mesh |-> [m EXCEPT !.vertex_buffer = 1, !.element_buffer = 2,
                             !.vertices = <<>>, !.elements = <<>>]]
    ELSE [ok |-> TRUE, mesh |-> [m EXCEPT !.vertices = <<>>, !.elements = <<>>]]

\* The origin of the terrain of the chunk with key k: chunk (cx, cz) of the world,
\* at height 0, with CHUNK_SIZE scaled to TerrainSize.
ChunkOrigin(k) ==
    <<(k[1] \div CHUNK_SIZE) * TerrainSize, 0, (k[2] \div CHUNK_SIZE) * TerrainSize>>

\* The x of the lattice points the chunks around the eye read
ChunkLatticeXs ==
    {i * S : i \in (-((VISIBLE_RADIUS + 1) * LatticeCells + 2))
                   ..((VISIBLE_RADIUS + 2) * LatticeCells + 2)}

\* One generator whose terrain lies below every chunk, and one whose terrain
\* crosses them.
ChunkGenerators ==
    {[density |-> [wx \in ChunkLatticeXs |-> 0], height |-> h] : h \in Heights}

\* The camera positions of this specification
ChunkEyes == {<<0, 0>>, <<CHUNK_SIZE - 1, CHUNK_SIZE - 1>>}

AllAir(t) == \A g \in Grid(t.size) : t.blocks[g] = BlockAir

\* chunk_loader.load(cx, cz, lod) with the generation it runs: the terrain and the
\* mesh of the chunk are generated, the mesh is finished, and the chunk is stamped,
\* inserted and the cache evicted down to MAX_CHUNKS.  When finish fails nothing is
\* inserted.
LoadChunk(c, k, t, tr, m) ==
    LET fin == Finish(m)
        chunk == [x |-> k[1], z |-> k[2], lod |-> k[3], used_time |-> t,
                  num_elements |-> Len(m.elements),
                  vertex_buffer |-> fin.mesh.vertex_buffer]
    IN  IF fin.ok
        THEN {[ok |-> TRUE, cache |-> c2] : c2 \in Evict(Insert(c, k, chunk))}
        ELSE {[ok |-> FALSE, cache |-> c]}

InitChunk ==
    /\ LoaderIdle
    /\ generator \in ChunkGenerators
    /\ terrain = AirTerrain(TerrainSize)
    /\ mesh = NoMesh
    /\ reference = NoReference
    /\ last = NoLast

\* One iteration of the frame loop with the camera at (x, z), as Frame, with the
\* chunk it loads generated by the TerrainGenerator.
FrameGen(x, z, limit, tick, step) ==
    /\ UNCHANGED <<generator, reference, world_size, inflight>>
    /\ \E r \in {RequestLoop(1, VisibleChunks(x, z), tick, step,
                   [cache |-> cache, needed |-> needed_chunks, reads |-> 0,
                    last_read |-> now, touched |-> {}])} :
        IF r.needed # <<>> /\ limit
        THEN \E k \in {Head(r.needed)} : \E gen \in {generator} :
             \E tr \in {TerrainGen(gen, ChunkOrigin(k), TerrainSize)} :
                 /\ tr.blocks \in [Grid(TerrainSize) -> BlockTypes]
                 /\ \E m \in {MeshGen(tr)} :
                    \E t \in {PreciseTimeNs(tick, step, r.reads)} :
                       /\ t <= MaxFrameTime
                       /\ \E l \in LoadChunk(r.cache, k, t, tr, m) :
                             /\ cache' = l.cache
                             /\ last' = [op |-> "frame", x |-> x, z |-> z,
                                         wanted |-> Range(VisibleChunks(x, z)),
                                         requested |-> DOMAIN r.cache,
                                         generated |-> {k},
                                         inserted |-> IF l.ok THEN {k} ELSE {},
                                         touched |-> r.touched,
                                         evicted |-> (DOMAIN r.cache \cup {k})
                                                         \ DOMAIN l.cache]
                       /\ terrain' = tr
                       /\ mesh' = m
                       /\ needed_chunks' = Tail(r.needed)
                       /\ now' = t
        ELSE /\ r.last_read <= MaxFrameTime
             /\ cache' = r.cache
             /\ needed_chunks' = r.needed
             /\ now' = r.last_read
             /\ last' = [op |-> "frame", x |-> x, z |-> z,
                         wanted |-> Range(VisibleChunks(x, z)),
                         requested |-> DOMAIN r.cache,
                         generated |-> {}, inserted |-> {},
                         touched |-> r.touched, evicted |-> {}]
             /\ UNCHANGED <<terrain, mesh>>

NextChunk ==
    \E e \in ChunkEyes, limit \in BOOLEAN, step \in 0..1 :
        FrameGen(e[1], e[2], limit, 1, step)

SpecChunk == InitChunk /\ [][NextChunk]_vars

ChunkDist2(k, x, z) ==
    LET dx == k[1] - BitAnd(x, ChunkMask)
        dz == k[2] - BitAnd(z, ChunkMask)
    IN  dx * dx + dz * dz

C13_LookupReadOnly ==
    [][(last'.op = "frame" /\ last'.generated = {}) =>
           /\ DOMAIN cache' = DOMAIN cache
           /\ \A k \in DOMAIN cache : cache'[k].used_time = cache[k].used_time
           /\ needed_chunks' = needed_chunks]_vars

(***************************************************************************)
(* The frame loop running forever.  The loop has no exit but the closing   *)
(* of the window, and load_limiter.limit() answers true once its interval  *)
(* has passed since it last did, so frames in which it answers true keep   *)
(* coming.  The loader only compares used_time values (min_by), so between *)
(* two frames the times are kept up to their order: each is replaced by    *)
(* its rank among the times of the cache, and the clock by the highest.    *)
(***************************************************************************)
\* The path of the camera in this specification: three positions in the chunk at
\* the origin, which give the chunk at (-64, -64) the lods 0, 1 and 0.
EyePath ==
    <<<<0, 0>>, <<CHUNK_SIZE - 1, CHUNK_SIZE - 1>>, <<CHUNK_SIZE - 1, 0>>>>

FairEyes == Range(EyePath)

UsedTimes(c) == {c[k].used_time : k \in DOMAIN c}

\* The cache c with every used_time replaced by its rank
Ranked(c) ==
    [k \in DOMAIN c |->
        [c[k] EXCEPT !.used_time =
            Cardinality({u \in UsedTimes(c) : u <= c[k].used_time})]]

\* One iteration of the frame loop, as Frame, read on a clock that advances by one
\* before the frame and between two reads.
FrameRanked(x, z, limit) ==
    /\ UNCHANGED <<generator, terrain, mesh, reference, world_size>>
    /\ \E coords \in {VisibleChunks(x, z)} :
       \E r \in {RequestLoop(1, coords, 1, 1,
                   [cache |-> cache, needed |-> needed_chunks, reads |-> 0,
                    last_read |-> now, touched |-> {}])} :
        IF r.needed # <<>> /\ limit
        THEN \E l \in Load(r.cache, inflight, Head(r.needed),
                          PreciseTimeNs(1, 1, r.reads)) :
                 /\ cache' = Ranked(l.cache)
                 /\ inflight' = l.inflight
                 /\ now' = Cardinality(UsedTimes(l.cache))
                 /\ needed_chunks' = Tail(r.needed)
                 /\ last' = [op |-> "frame", x |-> x, z |-> z,
                             wanted |-> Range(coords),
                             requested |-> DOMAIN r.cache,
                             generated |-> {Head(r.needed)},
                             inserted |-> {Head(r.needed)},
                             touched |-> r.touched,
                             evicted |-> (DOMAIN r.cache \cup {Head(r.needed)})
                                             \ DOMAIN l.cache]
        ELSE /\ cache' = Ranked(r.cache)
             /\ now' = Cardinality(UsedTimes(r.cache))
             /\ needed_chunks' = r.needed
             /\ last' = [op |-> "frame", x |-> x, z |-> z,
                         wanted |-> Range(coords),
                         requested |-> DOMAIN r.cache,
                         generated |-> {}, inserted |-> {},
                         touched |-> r.touched, evicted |-> {}]
             /\ UNCHANGED inflight

\* The camera moves along its path and does not come back.
EyeAhead(e) ==
    \A i, j \in DOMAIN EyePath :
        (EyePath[i] = <<last.x, last.z>> /\ EyePath[j] = e) => i <= j

FrameLimited == \E e \in FairEyes : EyeAhead(e) /\ FrameRanked(e[1], e[2], FALSE)

FrameUnlimited == \E e \in FairEyes : EyeAhead(e) /\ FrameRanked(e[1], e[2], TRUE)

NextFrameFair == FrameLimited \/ FrameUnlimited

SpecFrameFair == InitFrame /\ [][NextFrameFair]_vars /\ WF_vars(FrameUnlimited)

\* The keys a frame can want
WantedKeys == UNION {Range(VisibleChunks(e[1], e[2])) : e \in FairEyes}

C15_PendingOnlyWanted ==
    last.op = "frame" => Range(needed_chunks) \subseteq last.wanted

\* C16: the key a frame hands to load is the first key, in the order visible_chunks
\* returns for the camera position of the frame, that is neither cached nor in
\* flight.  (The request loop leaves the key set of the cache as it was.)
C16_DispatchNearest ==
    [][\A k \in last'.generated :
           \E coords \in {VisibleChunks(last'.x, last'.z)} :
               \E i \in DOMAIN coords :
                   /\ coords[i] = k
                   /\ k \notin DOMAIN cache \cup inflight
                   /\ \A j \in 1..(i - 1) : coords[j] \in DOMAIN cache \cup inflight]_vars

(***************************************************************************)
(* Further claims about terrain generation, checked under SpecTerrain.     *)
(***************************************************************************)
\* Whether the density interpolated at block b of the chunk at p is below the carve
\* threshold
BelowThreshold(gen, p, b) ==
    10 * InterpolatedDensity(gen, p, TerrainSize, b) < CarveThresholdTenths * S * S * S

\* The block type as a function of v.y, the height (times 2) and whether the
\* density is below the threshold
ExpectedBlock(vy, height, below) ==
    IF 2 * vy >= height
    THEN IF vy >= water_height THEN BlockAir ELSE BlockWater
    ELSE IF below THEN BlockAir
         ELSE IF 2 * vy > height - 2 * 2 THEN BlockGrass
         ELSE IF 2 * vy > height - 2 * dirt_height THEN BlockDirt
         ELSE BlockStone

\* C17: every block of a generated grid, halo included, has the type given by v.y,
\* the height of its column and its interpolated density: at or above the height,
\* air at or above the water height and water below it, whatever the density; below
\* the height, air when the density is below the threshold, otherwise grass above
\* height - 2, dirt above height - dirt_height, stone below.
C17_BlockTypeFunction ==
    last.op = "gen" =>
        \A g \in Grid(TerrainSize) :
            \E b \in {<<g[1] - 1, g[2] - 1, g[3] - 1>>} :
                terrain.blocks[g] =
                    ExpectedBlock(last.p[2] + b[2],
                                  HeightGet(generator, last.p[1] + b[1], 0, last.p[3] + b[3]),
                                  BelowThreshold(generator, last.p, b))

\* A generated grid with a water block whose density is below the threshold, a
\* carved block below the water height, and a block left solid.
C17_Witness ==
    /\ last.op = "gen"
    /\ \E g \in Grid(TerrainSize) :
          /\ terrain.blocks[g] = BlockWater
          /\ BelowThreshold(generator, last.p, <<g[1] - 1, g[2] - 1, g[3] - 1>>)
    /\ \E g \in Grid(TerrainSize) :
          /\ terrain.blocks[g] = BlockAir
          /\ 2 * (last.p[2] + g[2] - 1) < generator.height
          /\ last.p[2] + g[2] - 1 < water_height
    /\ \E g \in Grid(TerrainSize) : terrain.blocks[g] \in {BlockGrass, BlockDirt, BlockStone}

(***************************************************************************)
(* The chunk drawn for a wanted key that is not cached, checked under      *)
(* SpecFrameFair, whose camera path makes one chunk wanted at two lods.    *)
(***************************************************************************)
\* The keys of the set ks that are at the chunk position of key k
SamePosition(ks, k) == {j \in ks : j[1] = k[1] /\ j[2] = k[2]}

\* The keys of ks with the lowest lod
LowestLod(ks) == {j \in ks : \A i \in ks : j[3] <= i[3]}

\* C18, with the fallback as the search finds it: for a wanted key that is not
\* cached, the chunk the frame uses for its position is the cached chunk of that
\* position with the lowest lod among the lods below 5, finer or coarser than the
\* wanted one; when there is none, the chunk with lod 5 if it is cached, and
\* otherwise nothing.
C18_FallbackLowestLod ==
    [][\A k \in last'.wanted \ DOMAIN cache :
           LET found == {j \in SamePosition(DOMAIN cache, k) : j[3] < LOD_SEARCH_LIMIT}
           IN  SamePosition(last'.touched, k) =
                   IF found # {}
                   THEN LowestLod(found)
                   ELSE {j \in SamePosition(DOMAIN cache, k) : j[3] = LOD_SEARCH_LIMIT}]_vars

\* A frame wanted a key that was not cached and used the cached chunk of a coarser
\* lod at the same position.
C18_Witness ==
    /\ last.op = "frame"
    /\ \E k \in last.wanted \ last.requested :
          \E j \in SamePosition(last.touched, k) : j[3] > k[3]

\* C18: for a wanted key that is not cached, the chunk the frame uses for its
\* position is the cached chunk with the smallest lod greater than the wanted one,
\* and nothing when no such chunk is cached.
C18_FallbackNearestCoarser ==
    [][\A k \in last'.wanted \ DOMAIN cache :
           SamePosition(last'.touched, k) =
               LowestLod({j \in SamePosition(DOMAIN cache, k) : j[3] > k[3]})]_vars

\* C19: a generated grid whose blocks are all air or water has an empty exposed mask
\* (the unmeshed_faces Mesh::gen builds) in each of the 6 directions, and its mesh
\* has no vertices and no elements.
C19_WaterNotMeshed ==
    (/\ last.op = "gen"
     /\ \A g \in Grid(TerrainSize) : terrain.blocks[g] \in {BlockAir, BlockWater}) =>
        /\ \A f \in 1..NUM_FACES : UnmeshedFaces(terrain, faces[f]) = {}
        /\ mesh.vertices = <<>>
        /\ mesh.elements = <<>>

(***************************************************************************)
(* The buffers of a generated mesh, checked under SpecMesh.                *)
(***************************************************************************)
\* C20: after Mesh::gen there is a quad count n with 4 * n vertices and 6 * n
\* elements; every element is smaller than the number of vertices; and the 6
\* elements of quad q (from 0, in the order the quads were pushed) are among
\* 4 * q .. 4 * q + 3, the places of the 4 vertices pushed for that quad.  The
\* face ranges account for the same quads.
C20_BuffersConsistent ==
    last.op = "mesh" =>
        \E n \in 0..Len(mesh.vertices) :
            /\ Len(mesh.vertices) = 4 * n
            /\ Len(mesh.elements) = 6 * n
            /\ \A i \in DOMAIN mesh.elements : mesh.elements[i] < Len(mesh.vertices)
            /\ \A q \in 0..(n - 1) : \A e \in 1..6 :
                  mesh.elements[6 * q + e] \in (4 * q)..(4 * q + 3)
            /\ mesh.face_ranges[0][2] + mesh.face_ranges[1][2] + mesh.face_ranges[2][2]
                 + mesh.face_ranges[3][2] + mesh.face_ranges[4][2] + mesh.face_ranges[5][2]
                 = 6 * n

\* A mesh of at least three quads, in more than one face direction.
C20_Witness ==
    /\ last.op = "mesh"
    /\ Len(mesh.elements) >= 18
    /\ Cardinality({f \in 0..(NUM_FACES - 1) : mesh.face_ranges[f][2] > 0}) >= 2

(***************************************************************************)
(* mesh.rs: the accesses Mesh::gen makes.  A log holds the coordinates     *)
(* handed to Terrain::get (gets) and the coordinates handed to             *)
(* BlockBitmap::insert, contains and remove (bits); the loops below walk   *)
(* the mesher's loops again and add each call's coordinates to the log.    *)
(***************************************************************************)
NoAccesses == [gets |-> {}, bits |-> {}]

JoinLogs(logs) ==
    [gets |-> UNION {l.gets : l \in logs}, bits |-> UNION {l.bits : l \in logs}]

\* mesh.rs:77-98: t.get(x, y, z), t.get of the neighbour unless the block is air,
\* unmeshed_faces.insert(x, y, z) if the neighbour is not opaque
MaskLog(t, face) ==
    [gets |-> Interior(t.size) \cup
                 {AddV(q, face.normal) : q \in {r \in Interior(t.size) : Get(t, r) # BlockAir}},
     bits |-> {q \in Interior(t.size) :
                  /\ Get(t, q) # BlockAir
                  /\ ~IsOpaque(Get(t, AddV(q, face.normal)))}]

RECURSIVE RunLengthLogOffByOne(_, _, _, _, _, _, _, _)
\* the while loop of run_length running while len <= max_len
RunLengthLogOffByOne(t, unmeshed_faces, blocktype, p, dp, len, max_len, log) ==
    IF len <= max_len
    THEN LET q == AddV(p, dp)
         IN  IF BitmapIndex(t.size, q) \in unmeshed_faces
             THEN IF Get(t, q) = blocktype
                  THEN RunLengthLogOffByOne(t, unmeshed_faces, blocktype, q, dp, len + 1,
                           max_len,
                           [gets |-> log.gets \cup {q}, bits |-> log.bits \cup {q}])
                  ELSE [gets |-> log.gets \cup {q}, bits |-> log.bits \cup {q}]
             ELSE [log EXCEPT !.bits = @ \cup {q}]
    ELSE log

RECURSIVE RunLengthLog(_, _, _, _, _, _, _, _)
\* mesh.rs:219-232, the while loop of run_length: unmeshed_faces.contains(p) at each
\* step, t.get(p) when the bit is set
RunLengthLog(t, unmeshed_faces, blocktype, p, dp, len, max_len, log) ==
    IF len < max_len
    THEN LET q == AddV(p, dp)
         IN  IF BitmapIndex(t.size, q) \in unmeshed_faces
             THEN IF Get(t, q) = blocktype
                  THEN RunLengthLog(t, unmeshed_faces, blocktype, q, dp, len + 1, max_len,
                           [gets |-> log.gets \cup {q}, bits |-> log.bits \cup {q}])
                  ELSE [gets |-> log.gets \cup {q}, bits |-> log.bits \cup {q}]
             ELSE [log EXCEPT !.bits = @ \cup {q}]
    ELSE log

\* mesh.rs:210-235, run_length: t.get(p) at line 214, then the loop
RunLengthAccesses(t, unmeshed_faces, p, dp) ==
    RunLengthLog(t, unmeshed_faces, Get(t, p), p, dp, 1,
                 Dot(SubV(<<t.size, t.size, t.size>>, p), dp),
                 [gets |-> {p}, bits |-> {}])

\* mesh.rs:200-203, expand_face: run_length along dk from p, then along dj from each
\* block of that run
ExpandFaceAccesses(t, unmeshed_faces, face, p) ==
    JoinLogs({RunLengthAccesses(t, unmeshed_faces, p, face.dk)} \cup
             {RunLengthAccesses(t, unmeshed_faces, AddV(p, MulS(face.dk, k)), face.dj) :
                 k \in 0..(RunLength(t, unmeshed_faces, p, face.dk) - 1)})

\* mesh.rs:119-125: unmeshed_faces.remove(x + dx, y + dy, z + dz)
RemoveAccesses(p, dim) ==
    [gets |-> {},
     bits |-> {AddV(p, <<dx, dy, dz>>) :
                  dx \in 0..(dim[1] - 1), dy \in 0..(dim[2] - 1), dz \in 0..(dim[3] - 1)}]

RECURSIVE LogLoopK(_, _, _, _, _, _)
\* mesh.rs:102-138 with the log: t.get(x, y, z) and unmeshed_faces.contains(x, y, z)
\* at every position, and for a face to mesh the accesses of expand_face and the
\* removes.  tr holds the mesher's state (acc) and the log.
LogLoopK(t, face, i, j, k, tr) ==
    IF k >= t.size
    THEN tr
    ELSE LET p == ScanPosition(face, i, j, k)
             seen == [gets |-> tr.log.gets \cup {p}, bits |-> tr.log.bits \cup {p}]
         IN  IF BitmapIndex(t.size, p) \notin tr.acc.unmeshed_faces
             THEN LogLoopK(t, face, i, j, k + 1, [acc |-> tr.acc, log |-> seen])
             ELSE LogLoopK(t, face, i, j, k + 1,
                      [acc |-> EmitQuad(t, face, p,
                                   ExpandFace(t, tr.acc.unmeshed_faces, face, p), tr.acc),
                       log |-> JoinLogs({seen,
                                   ExpandFaceAccesses(t, tr.acc.unmeshed_faces, face, p),
                                   RemoveAccesses(p,
                                       ExpandFace(t, tr.acc.unmeshed_faces, face, p))})])

RECURSIVE LogLoopJ(_, _, _, _, _)
\* mesh.rs:101 with the log
LogLoopJ(t, face, i, j, tr) ==
    IF j >= t.size
    THEN tr
    ELSE IF Evaluated(tr.acc)
         THEN LogLoopJ(t, face, i, j + 1, LogLoopK(t, face, i, j, 0, tr))
         ELSE tr

RECURSIVE LogFaceLoop(_, _, _, _)
\* mesh.rs:100 with the log
LogFaceLoop(t, face, i, tr) ==
    IF i >= t.size
    THEN tr
    ELSE IF Evaluated(tr.acc)
         THEN LogFaceLoop(t, face, i + 1, LogLoopJ(t, face, i, 0, tr))
         ELSE tr

\* mesh.rs:76-140, the accesses of one face direction: the mask, then the scan
FaceAccesses(t, face) ==
    LogFaceLoop(t, face, 0,
        [acc |-> [unmeshed_faces |-> UnmeshedFaces(t, face),
                  vertices |-> <<>>, elements |-> <<>>],
         log |-> MaskLog(t, face)]).log

\* mesh.rs:71-143, the accesses of Mesh::gen: those of the six directions
MeshGenAccesses(t) == JoinLogs({FaceAccesses(t, faces[f]) : f \in 1..NUM_FACES})

\* The coordinates of the haloed grid, and of the chunk, on one axis
HaloRange(n) == (-1)..n

ChunkRange(n) == 0..(n - 1)

\* C21: during Mesh::gen every Terrain lookup uses coordinates within
\* [-1, CHUNK_SIZE] on each axis and every insert, probe and remove of the exposed
\* mask uses coordinates within [0, CHUNK_SIZE) on each axis, so no two distinct
\* cells accessed share a bitmap index.
C21_AccessesInGrid ==
    [][last'.op \in {"mesh", "gen"} =>
          \E t \in {terrain'} : \E log \in {MeshGenAccesses(t)} :
              /\ \A g \in log.gets : \A a \in 1..3 : g[a] \in HaloRange(t.size)
              /\ \A b \in log.bits : \A a \in 1..3 : b[a] \in ChunkRange(t.size)
              /\ \A b1, b2 \in log.bits :
                    BitmapIndex(t.size, b1) = BitmapIndex(t.size, b2) => b1 = b2]_vars

\* A generated chunk whose mesh has a merged quad, where the lookups reached the halo
\* on both sides and the mask was accessed from the first to the last block of an axis.
C21_Witness ==
    /\ last.op = "gen"
    /\ \E f \in 1..NUM_FACES :
          \E q \in 0..(QuadCount(mesh, faces[f]) - 1) :
              Cardinality(QuadCells(mesh, faces[f], q)) >= 2
    /\ \E log \in {MeshGenAccesses(terrain)} :
          /\ \E g \in log.gets : \E a \in 1..3 : g[a] = -1
          /\ \E g \in log.gets : \E a \in 1..3 : g[a] = terrain.size
          /\ \E b \in log.bits : \E a \in 1..3 : b[a] = 0
          /\ \E b \in log.bits : \E a \in 1..3 : b[a] = terrain.size - 1

(***************************************************************************)
(* chunk.rs: ChunkLoader::update called forever, once per frame.  An       *)
(* update may read the value the clock had at the last read before it, or  *)
(* a later one.  As in the frame loop above, the times are kept up to      *)
(* their order between two updates.  An update that leaves the loader as   *)
(* it was is a stuttering step, so a behaviour that ends in stuttering is  *)
(* one where the eye stays and the updates change nothing any more.        *)
(***************************************************************************)
\* ChunkLoader::update(x, z), as Update, on a clock that is not stopped at MaxTime
UpdateRanked(x, z, tick, step) ==
    \E win \in {WindowSeq} :
    \E r \in {UpdateLoop(1, win, x, z, tick, step,
                 [cache |-> cache, loaded |-> FALSE, reads |-> 0, last_read |-> now,
                  generated |-> {}, inserted |-> {}, touched |-> {}])} :
        /\ \E c2 \in Evict(r.cache) :
              /\ cache' = Ranked(c2)
              /\ now' = Cardinality(UsedTimes(c2) \cup {r.last_read})
              /\ last' = [op |-> "update", x |-> x, z |-> z,
                          generated |-> r.generated, inserted |-> r.inserted,
                          touched |-> r.touched,
                          evicted |-> DOMAIN r.cache \ DOMAIN c2]
        /\ UNCHANGED <<world_size, needed_chunks, inflight>>
        /\ UNCHANGED <<generator, terrain, mesh, reference>>

\* An update whose first clock read is later than the last read before it
UpdateAdvancing ==
    \E x \in EyeXs, z \in EyeZs, step \in 0..1 : UpdateRanked(x, z, 1, step)

\* An update whose first clock read returns what the last read before it returned
UpdateAtOnce ==
    \E x \in EyeXs, z \in EyeZs, step \in 0..1 : UpdateRanked(x, z, 0, step)

NextUpdateFair == UpdateAdvancing \/ UpdateAtOnce

\* The update of the next frame when the eye has not moved and time has passed.
\* The frame loop calls update once per frame for as long as the program runs, so
\* such an update is not put off forever while the eye stays where it is.
UpdateAgain ==
    /\ last.op = "update"
    /\ \E step \in 0..1 : UpdateRanked(last.x, last.z, 1, step)

SpecUpdateFair == Init /\ [][NextUpdateFair]_vars /\ WF_vars(UpdateAgain)

\* The eye was at e in the last update, and its window fits the cache.
EyeHeldAt(e) ==
    /\ last.op = "update"
    /\ <<last.x, last.z>> = e
    /\ Cardinality(Window(e[1], e[2])) <= MAX_CHUNKS

\* Every chunk of the window of e is cached, and the last update at e generated and
\* evicted nothing.
SettledAt(e) ==
    /\ last.op = "update"
    /\ <<last.x, last.z>> = e
    /\ Window(e[1], e[2]) \subseteq DOMAIN cache
    /\ last.generated = {}
    /\ last.evicted = {}

OutsideWindow(c) == DOMAIN c \ Window(last.x, last.z)

\* C23, with equal used_time values told apart: an update evicts at most one chunk,
\* and when it evicts a chunk of its window while a chunk outside the window stays
\* cached, that chunk's used_time is the value the clock had before the update, so
\* the update read that same value again and the two chunks were equally old; a
\* chunk outside the window that is older is evicted first.
C23_OutsideEvictedFirstUnlessTied ==
    [][last'.op = "update" =>
          /\ Cardinality(last'.evicted) <= 1
          /\ (last'.evicted \cap Window(last'.x, last'.z) # {} =>
                 \A j \in DOMAIN cache' \ Window(last'.x, last'.z) :
                     /\ j \in DOMAIN cache
                     /\ cache[j].used_time = now
                     /\ cache'[j].used_time = now)]_vars

\* An update that had a chunk of its window and chunks outside it to choose from:
\* it generated a chunk, evicted a chunk outside the window, and another chunk
\* outside the window is still cached.
C23_Witness ==
    /\ last.op = "update"
    /\ last.generated # {}
    /\ last.evicted # {}
    /\ last.evicted \cap Window(last.x, last.z) = {}
    /\ OutsideWindow(cache) # {}
    /\ DOMAIN cache \cap Window(last.x, last.z) # {}

\* C23: the eviction step of an update never removes a chunk of the update's window
\* while the cache still holds a chunk outside the window.
C23_WindowNeverEvictedFirst ==
    last.op = "update" =>
        (last.evicted \cap Window(last.x, last.z) # {} => OutsideWindow(cache) = {})

(***************************************************************************)
(* chunk.rs and main.rs: the keys computed from an eye position, for every *)
(* value an eye coordinate can take on the x axis and for the values at    *)
(* the ends and around zero on the z axis (the code is the same for both). *)
(***************************************************************************)
MinInt == -(IntModulus \div 2)

MaxInt == IntModulus \div 2 - 1

AllInts == MinInt..MaxInt

EdgeInts == {MinInt, -CHUNK_SIZE - 1, -1, 0, CHUNK_SIZE - 1, MaxInt}

\* The loader as constructed, and an eye position to compute the keys for
InitKeys ==
    /\ GeneratorIdle
    /\ world_size \in 1..MaxWorldSize
    /\ needed_chunks = <<>>
    /\ inflight = {}
    /\ cache = <<>>
    /\ now = 0
    /\ \E x \in AllInts, z \in EdgeInts :
          last = [op |-> "eye", x |-> x, z |-> z,
                  generated |-> {}, inserted |-> {}, touched |-> {}, evicted |-> {}]

\* The keys of the cells ChunkLoader::update(x, z) visits and of the coordinates
\* visible_chunks(x, z) returns; first is the key of the first offset of the
\* spiral, (0, 0).
KeysAt(x, z) ==
    /\ \E coords \in {VisibleChunks(x, z)} :
          last' = [op |-> "keys", x |-> x, z |-> z,
                   origin |-> ChunkKey(x, z, <<0, 0>>),
                   window |-> Window(x, z),
                   first |-> <<coords[1][1], coords[1][2]>>,
                   visible |-> {<<c[1], c[2]>> : c \in Range(coords)},
                   generated |-> {}, inserted |-> {}, touched |-> {}, evicted |-> {}]
    /\ UNCHANGED loadervars
    /\ UNCHANGED <<generator, terrain, mesh, reference>>

NextKeys == last.op = "eye" /\ KeysAt(last.x, last.z)

SpecKeys == InitKeys /\ [][NextKeys]_vars

\* m is the largest multiple of CHUNK_SIZE that is <= v
IsChunkFloor(m, v) ==
    /\ m % CHUNK_SIZE = 0
    /\ m <= v
    /\ v < m + CHUNK_SIZE

\* C24: for every integer eye coordinate, negative values included,
\* x & !(CHUNK_SIZE-1) is the largest multiple of CHUNK_SIZE that is <= x; every key
\* computed for the cache is a multiple of CHUNK_SIZE on each axis, and the eye lies
\* inside the chunk at window offset (0, 0).
C24_MaskIsChunkFloor ==
    last.op = "keys" =>
        /\ IsChunkFloor(BitAnd(last.x, ChunkMask), last.x)
        /\ IsChunkFloor(BitAnd(last.z, ChunkMask), last.z)
        /\ \A k \in last.window \cup last.visible :
              k[1] % CHUNK_SIZE = 0 /\ k[2] % CHUNK_SIZE = 0
        /\ \A o \in {last.origin, last.first} :
              /\ o[1] <= last.x /\ last.x < o[1] + CHUNK_SIZE
              /\ o[2] <= last.z /\ last.z < o[2] + CHUNK_SIZE
        /\ last.origin \in last.window
        /\ last.first \in last.visible

\* A negative eye coordinate that is not a multiple of CHUNK_SIZE (rounding towards
\* zero and rounding down differ), with a window of several chunks.
C24_Witness ==
    /\ last.op = "keys"
    /\ last.x < 0
    /\ last.x % CHUNK_SIZE # 0
    /\ last.z < 0
    /\ BitAnd(last.x, ChunkMask) < last.x
    /\ Cardinality(last.window) > 1

====
